---------------------------- MODULE Spec2Model ----------------------------
(***************************************************************************)
(* A state-machine model of the two programs of the repository:            *)
(*   - a_star_search (A_Star.cpp): A* on a 4-connected grid of free (0)    *)
(*     and blocked (1) cells, with a Manhattan heuristic, a min-priority   *)
(*     queue ordered by f_cost only, and the maps g_costs and parents;     *)
(*   - dijkstra (Dijikrats.cpp): single-source shortest paths on an        *)
(*     undirected graph given as an edge list, with int distances.         *)
(* Each run's inputs are drawn in the initial state; the actions are the   *)
(* iterations of the programs' loops.                                      *)
(***************************************************************************)
EXTENDS Integers, Sequences, FiniteSets, Bags, TLC

\* ------------------------------------------------------------------ bounds
\* Grids have at most MaxRows rows, MaxCols columns and MaxCells cells.
MaxRows == 3
MaxCols == 5
MaxCells == 10
\* The runs checked for termination are those on grids with at most
\* MaxFairCells cells, at most MaxFairBlocked of them blocked.
MaxFairCells == 9
MaxFairBlocked == 1
\* Graphs have at most MaxV vertices and MaxEdges edges, with weights in Weights.
MaxV == 3
MaxEdges == 3

\* <climits>: the largest int, used by dijkstra as "infinite".
INT_MAX == 2147483647

Weights == {0, 1, 2, INT_MAX}

VARIABLES
    \* a_star_search: parameters
    rows, cols, grid, start, goal,
    \* a_star_search: locals
    open_list, g_costs, parents, current, curr_path_point, path,
    \* a_star_search: position in the function and the value returned
    apc, result,
    \* dijkstra: parameters
    V, edges, src,
    \* dijkstra: locals, and the position in the function
    adj, pq, dist, dpc

avars == <<rows, cols, grid, start, goal, open_list, g_costs, parents,
           current, curr_path_point, path, apc, result>>

dvars == <<V, edges, src, adj, pq, dist, dpc>>

vars == <<avars, dvars>>

\* ------------------------------------------------------------ A_Star.cpp

\* Point {x, y}: x indexes the row, y the column (grid[p.x][p.y]).
Point(x, y) == <<x, y>>

CellsOf(r, c) == (0 .. r - 1) \X (0 .. c - 1)

\* The parent of the start node, {-1, -1}.
NoPoint == Point(-1, -1)

\* The value std::map<Point, Point>::operator[] inserts for a missing key.
DefaultPoint == Point(0, 0)

Abs(x) == IF x < 0 THEN -x ELSE x

\* The heuristic overestimating: three times the Manhattan distance.
calculate_heuristic_Tripled(p1, p2) ==
    3 * (Abs(p1[1] - p2[1]) + Abs(p1[2] - p2[2]))

\* Manhattan distance.
calculate_heuristic(p1, p2) == Abs(p1[1] - p2[1]) + Abs(p1[2] - p2[2])

\* Within the grid's bounds and not an obstacle (the conjunction is evaluated
\* left to right, so g is read only in bounds).
is_valid(p, r, c, g) ==
    p[1] >= 0 /\ p[1] < r /\ p[2] >= 0 /\ p[2] < c /\ g[p] = 0

\* Node {p, g_cost, h_cost, f_cost, parent} with f_cost = g_cost + h_cost.
MkNode(p, g, h, par) ==
    [p |-> p, g_cost |-> g, h_cost |-> h, f_cost |-> g + h, parent |-> par]

\* The comparison turned round: the queue becomes a max-heap.
NodeGreater_Less(a, b) == a.f_cost < b.f_cost

\* Node::operator>, the order of the priority queue: f_cost alone.
NodeGreater(a, b) == a.f_cost > b.f_cost

\* The nodes open_list.top() can return: std::greater<Node> makes the queue a
\* min-heap, and among nodes that are not ordered by operator> the heap's
\* layout decides, which the model leaves open.
TopNodes(open) ==
    {n \in BagToSet(open) : \A m \in BagToSet(open) : ~NodeGreater(n, m)}

\* The movements dx[i], dy[i]: up, down, left, right.
dx == <<-1, 1, 0, 0>>
dy == <<0, 0, -1, 1>>

EmptyMap == [c \in {} |-> c]

\* map[k] = v: insert or overwrite.
MapSet(m, k, v) == [c \in DOMAIN m \cup {k} |-> IF c = k THEN v ELSE m[c]]

\* The test with <= for <: an equal cost is recorded and pushed again.
Improves_OrEqual(gc, p, new_g) == p \notin DOMAIN gc \/ new_g <= gc[p]

\* The test with != for <: any different cost replaces the recorded one.
Improves_Differs(gc, p, new_g) == p \notin DOMAIN gc \/ new_g # gc[p]

\* The test with > for <: a higher cost replaces a lower one.
Improves_Higher(gc, p, new_g) == p \notin DOMAIN gc \/ new_g > gc[p]

\* The test of line 82: the neighbour has no recorded cost, or the new one is
\* lower.
Improves(gc, p, new_g) == p \notin DOMAIN gc \/ new_g < gc[p]

\* The body without line 84 for a cell that has a parent: the cost is
\* lowered and the old parent kept.
Relax_KeepParent(st, cur, i, r, c, g, gl) ==
    LET neighbor_p == Point(cur.p[1] + dx[i], cur.p[2] + dy[i])
        new_g_cost == cur.g_cost + 1
    IN  IF is_valid(neighbor_p, r, c, g) /\ Improves(st.g, neighbor_p, new_g_cost)
        THEN [g    |-> MapSet(st.g, neighbor_p, new_g_cost),
              par  |-> IF neighbor_p \in DOMAIN st.par THEN st.par
                       ELSE MapSet(st.par, neighbor_p, cur.p),
              open |-> st.open (+) SetToBag({MkNode(neighbor_p, new_g_cost,
                                    calculate_heuristic(neighbor_p, gl), cur.p)})]
        ELSE st

\* The body of the for loop for movement i, from the popped node cur, on the
\* maps and the queue st = [g, par, open].
Relax(st, cur, i, r, c, g, gl) ==
    LET neighbor_p == Point(cur.p[1] + dx[i], cur.p[2] + dy[i])
        new_g_cost == cur.g_cost + 1
    IN  IF is_valid(neighbor_p, r, c, g) /\ Improves(st.g, neighbor_p, new_g_cost)
        THEN [g    |-> MapSet(st.g, neighbor_p, new_g_cost),
              par  |-> MapSet(st.par, neighbor_p, cur.p),
              open |-> st.open (+) SetToBag({MkNode(neighbor_p, new_g_cost,
                                    calculate_heuristic(neighbor_p, gl), cur.p)})]
        ELSE st

\* The for loop: movements i .. 4 in order.
RECURSIVE ExpandFrom(_, _, _, _, _, _, _)
ExpandFrom(i, st, cur, r, c, g, gl) ==
    IF i > 4 THEN st
    ELSE ExpandFrom(i + 1, Relax(st, cur, i, r, c, g, gl), cur, r, c, g, gl)

Reverse(s) == [i \in 1 .. Len(s) |-> s[Len(s) + 1 - i]]

\* The state on entry to the while loop: the start node is in the queue with
\* g = 0 and f = h, g_costs[start] = 0, parents is empty.
AStarInit ==
    /\ rows \in 1 .. MaxRows
    /\ cols \in 1 .. MaxCols
    /\ rows * cols <= MaxCells
    /\ grid \in [CellsOf(rows, cols) -> {0, 1}]
    /\ start \in CellsOf(rows, cols)
    /\ goal \in CellsOf(rows, cols)
    /\ open_list = SetToBag({MkNode(start, 0, calculate_heuristic(start, goal), NoPoint)})
    /\ g_costs = MapSet(EmptyMap, start, 0)
    /\ parents = EmptyMap
    /\ current = MkNode(NoPoint, 0, 0, NoPoint)
    /\ curr_path_point = NoPoint
    /\ path = <<>>
    /\ apc = "search"
    /\ result = <<>>

\* One iteration of the while loop whose popped node is not the goal: the
\* node leaves the queue and its four neighbours are relaxed.
Expand ==
    /\ apc = "search"
    /\ \E n \in TopNodes(open_list) :
          /\ n.p # goal
          /\ current' = n
          /\ \E st \in {ExpandFrom(1, [g |-> g_costs, par |-> parents,
                                       open |-> open_list (-) SetToBag({n})],
                                   n, rows, cols, grid, goal)} :
                 /\ g_costs' = st.g
                 /\ parents' = st.par
                 /\ open_list' = st.open
    /\ UNCHANGED <<rows, cols, grid, start, goal, curr_path_point, path, apc, result,
                   dvars>>

\* The iteration whose popped node is the goal: path reconstruction begins.
FoundGoal ==
    /\ apc = "search"
    /\ \E n \in TopNodes(open_list) :
          /\ n.p = goal
          /\ current' = n
          /\ open_list' = open_list (-) SetToBag({n})
    /\ curr_path_point' = goal
    /\ path' = <<>>
    /\ apc' = "reconstruct"
    /\ UNCHANGED <<rows, cols, grid, start, goal, g_costs, parents, result, dvars>>

\* One iteration of the reconstruction loop. parents[curr_path_point] on a
\* missing key inserts {0, 0} and yields it. The code puts no bound on the
\* loop; the model stops it once path holds more points than twice the grid.
ReconstructStep ==
    /\ apc = "reconstruct"
    /\ curr_path_point # start
    /\ Len(path) <= 2 * rows * cols
    /\ path' = Append(path, curr_path_point)
    /\ IF curr_path_point \in DOMAIN parents
       THEN /\ curr_path_point' = parents[curr_path_point]
            /\ UNCHANGED parents
       ELSE /\ curr_path_point' = DefaultPoint
            /\ parents' = MapSet(parents, curr_path_point, DefaultPoint)
    /\ UNCHANGED <<rows, cols, grid, start, goal, open_list, g_costs, current,
                   apc, result, dvars>>

\* The exit without line 71: start is not pushed.
ReconstructDone_NoStart ==
    /\ apc = "reconstruct"
    /\ curr_path_point = start
    /\ path' = Reverse(path)
    /\ result' = path'
    /\ apc' = "done"
    /\ UNCHANGED <<rows, cols, grid, start, goal, open_list, g_costs, parents,
                   current, curr_path_point, dvars>>

\* The loop's exit: push start, reverse, return the path.
ReconstructDone ==
    /\ apc = "reconstruct"
    /\ curr_path_point = start
    /\ path' = Reverse(Append(path, start))
    /\ result' = path'
    /\ apc' = "done"
    /\ UNCHANGED <<rows, cols, grid, start, goal, open_list, g_costs, parents,
                   current, curr_path_point, dvars>>

\* The queue is empty: return {}.
Exhausted ==
    /\ apc = "search"
    /\ open_list = EmptyBag
    /\ result' = <<>>
    /\ apc' = "done"
    /\ UNCHANGED <<rows, cols, grid, start, goal, open_list, g_costs, parents,
                   current, curr_path_point, path, dvars>>

\* ---------------------------------------------------------- Dijikrats.cpp

\* adj[u] = list of {v, weight}; every edge is entered in both directions.
RECURSIVE constructadj(_, _, _)
constructadj(es, n, i) ==
    IF i > Len(es) THEN [u \in 0 .. n - 1 |-> <<>>]
    ELSE LET a  == constructadj(es, n, i + 1)
             u  == es[i][1]
             v  == es[i][2]
             wt == es[i][3]
             a1 == [a  EXCEPT ![u] = <<<<v, wt>>>> \o @]
         IN  [a1 EXCEPT ![v] = <<<<u, wt>>>> \o @]

\* What a build can make of an int addition that overflows (undefined
\* behaviour): the two's-complement result, or a trap that ends the program.
Overflows == {"wrap", "trap"}

AddOverflows(a, b) == b > 0 /\ a > INT_MAX - b

\* a + b in int, for b >= 0: the sum, or on overflow the wrapped sum.
IntAdd(a, b) ==
    IF AddOverflows(a, b) THEN ((a - INT_MAX) - 1) + ((b - INT_MAX) - 1)
    ELSE a + b

\* greater<vector<int>>: vectors {dist, vertex} compare lexicographically.
VecLess(a, b) == a[1] < b[1] \/ (a[1] = b[1] /\ a[2] < b[2])

\* pq.top(): the least vector of the queue.
PqTop(q) == CHOOSE a \in BagToSet(q) : \A b \in BagToSet(q) : ~VecLess(b, a)

\* The test of line 46: there is a shorter path to v through u.
Shorter(dv, through) == dv > through

\* The for loop over adj[u], from its i-th entry on, on st = [dist, pq, trap].
RECURSIVE RelaxAll(_, _, _, _, _)
RelaxAll(st, u, list, i, ub) ==
    IF i > Len(list) \/ st.trap THEN st
    ELSE LET v      == list[i][1]
             weight == list[i][2]
         IN  IF AddOverflows(st.dist[u], weight) /\ ub = "trap"
             THEN [st EXCEPT !.trap = TRUE]
             ELSE LET through == IntAdd(st.dist[u], weight)
                  IN  IF Shorter(st.dist[v], through)
                      THEN RelaxAll([dist |-> [st.dist EXCEPT ![v] = through],
                                     pq   |-> st.pq (+) SetToBag({<<through, v>>}),
                                     trap |-> FALSE],
                                    u, list, i + 1, ub)
                      ELSE RelaxAll(st, u, list, i + 1, ub)

\* Edges name vertices of the graph and carry non-negative weights.
EdgeSet(n) == (0 .. n - 1) \X (0 .. n - 1) \X Weights

SeqsUpTo(S, n) == UNION {[1 .. k -> S] : k \in 0 .. n}

\* The state on entry to the while loop: adj is built, every distance is
\* INT_MAX but the source's, and {0, src} is in the queue.
DijkstraInit ==
    /\ V \in 1 .. MaxV
    /\ edges \in SeqsUpTo(EdgeSet(V), MaxEdges)
    /\ src \in 0 .. V - 1
    /\ adj = constructadj(edges, V, 1)
    /\ pq = SetToBag({<<0, src>>})
    /\ dist = [v \in 0 .. V - 1 |-> IF v = src THEN 0 ELSE INT_MAX]
    /\ dpc = "loop"

\* One iteration of the while loop: pop the least vector, relax the edges of
\* its vertex in adjacency order.
DijkstraPop ==
    /\ dpc = "loop"
    /\ pq # EmptyBag
    /\ \E ub \in Overflows :
          LET top == PqTop(pq)
              u   == top[2]
              st  == RelaxAll([dist |-> dist, pq |-> pq (-) SetToBag({top}),
                               trap |-> FALSE], u, adj[u], 1, ub)
          IN  /\ dist' = st.dist
              /\ pq' = st.pq
              /\ dpc' = IF st.trap THEN "trapped" ELSE "loop"
    /\ UNCHANGED <<V, edges, src, adj, avars>>

\* The queue is empty: return dist.
DijkstraReturn ==
    /\ dpc = "loop"
    /\ pq = EmptyBag
    /\ dpc' = "done"
    /\ UNCHANGED <<V, edges, src, adj, pq, dist, avars>>

\* ------------------------------------------------------- specifications

\* The variables of the program that is not running.
AStarIdle ==
    /\ rows = 0 /\ cols = 0 /\ grid = EmptyMap
    /\ start = NoPoint /\ goal = NoPoint
    /\ open_list = EmptyBag /\ g_costs = EmptyMap /\ parents = EmptyMap
    /\ current = MkNode(NoPoint, 0, 0, NoPoint)
    /\ curr_path_point = NoPoint /\ path = <<>>
    /\ apc = "idle" /\ result = <<>>

DijkstraIdle ==
    /\ V = 0 /\ edges = <<>> /\ src = 0
    /\ adj = <<>> /\ pq = EmptyBag /\ dist = <<>>
    /\ dpc = "idle"

\* A run of a_star_search on any grid, start and goal within the bounds.
Init == AStarInit /\ DijkstraIdle

\* a_star_search: the iterations of its two loops and its two returns.
Next == Expand \/ FoundGoal \/ ReconstructStep \/ ReconstructDone \/ Exhausted

Spec == Init /\ [][Next]_vars

\* The same runs on the grids with few obstacles, where the search visits
\* the most cells.
FairInit ==
    /\ Init
    /\ rows * cols <= MaxFairCells
    /\ Cardinality({c \in DOMAIN grid : grid[c] = 1}) <= MaxFairBlocked

\* a_star_search is a sequential program: while a step of it is possible,
\* one is taken.
FairSpec == FairInit /\ [][Next]_vars /\ WF_vars(Next)

\* A run of dijkstra on any graph and source within the bounds.
DijkstraStart == DijkstraInit /\ AStarIdle

\* dijkstra: the iterations of its loop and its return.
DijkstraNext == DijkstraPop \/ DijkstraReturn

DijkstraSpec == DijkstraStart /\ [][DijkstraNext]_vars

\* --------------------------------------------------- reference notions

\* q is one orthogonal step (up, down, left or right) from p.
OneStep(p, q) ==
    \/ p[1] = q[1] /\ (p[2] = q[2] + 1 \/ q[2] = p[2] + 1)
    \/ p[2] = q[2] /\ (p[1] = q[1] + 1 \/ q[1] = p[1] + 1)

\* The cells one orthogonal step away from a cell of S that are free.
FreeNeighbours(S) ==
    {q \in CellsOf(rows, cols) : grid[q] = 0 /\ \E p \in S : OneStep(p, q)}

\* Breadth-first search over free cells: the number of steps from the
\* frontier (d steps from start) to goal, or -1 when goal is never met.
RECURSIVE BFS(_, _, _)
BFS(frontier, seen, d) ==
    IF goal \in frontier THEN d
    ELSE LET nxt == FreeNeighbours(frontier) \ seen
         IN  IF nxt = {} THEN -1 ELSE BFS(nxt, seen \cup nxt, d + 1)

\* The shortest step distance from start to goal over free cells.
BFSDist == BFS({start}, {start}, 0)

\* A path of free cells connects start to goal.
FreeConnected == grid[start] = 0 /\ grid[goal] = 0 /\ BFSDist >= 0

\* The nodes a step has pushed onto the frontier.
Pushed == {n \in BagToSet(open_list') : CopiesIn(n, open_list') > CopiesIn(n, open_list)}

\* The step is an iteration of the search loop: it popped current'.
Popped == apc = "search" /\ apc' \in {"search", "reconstruct"}

\* A node whose g is above the best cost recorded for its cell.
Stale(n, gc) == n.p \in DOMAIN gc /\ n.g_cost > gc[n.p]

\* ------------------------------------------------------------- the claims

\* C1: with start and goal free and goal reachable from start over free
\* cells, the search returns a non-empty path whose number of cells is the
\* breadth-first shortest step distance plus one.
C1_ShortestPath ==
    (apc = "done" /\ FreeConnected) =>
        (result # <<>> /\ Len(result) = BFSDist + 1)

\* C1's case: a returned shortest path of five cells or more that turns.
C1_Witness ==
    /\ apc = "done" /\ FreeConnected
    /\ \E i \in 1 .. Len(result) - 2 :
          result[i][1] # result[i + 2][1] /\ result[i][2] # result[i + 2][2]
    /\ BFSDist >= 4
    /\ Len(result) = BFSDist + 1

\* C2: every non-empty path returned starts at start, ends at goal, moves by
\* one orthogonal step at a time and holds no Blocked cell.
C2_PathWellFormed ==
    (apc = "done" /\ result # <<>>) =>
        /\ result[1] = start
        /\ result[Len(result)] = goal
        /\ \A i \in 1 .. Len(result) - 1 :
              OneStep(result[i], result[i + 1])
        /\ \A i \in 1 .. Len(result) : grid[result[i]] # 1

\* C3: when no path of free cells connects start to goal, the search
\* returns the empty sequence.
C3_NoPathNotFound ==
    (apc = "done" /\ ~FreeConnected) => result = <<>>

\* What does hold of C2 and C3: both, for the runs whose start is free.
FreeStartPathWellFormed == grid[start] = 0 => C2_PathWellFormed

FreeStartNoPathNotFound == grid[start] = 0 => C3_NoPathNotFound

\* C4: for a free cell p, a_star_search(p, p) returns [p]: the first pop
\* matches the goal, so no neighbour is ever given a cost, a parent or a node.
C4_StartIsGoal ==
    (start = goal /\ apc # "idle" /\ grid[start] = 0) =>
        /\ DOMAIN g_costs = {start}
        /\ parents = EmptyMap
        /\ BagToSet(open_list) \subseteq {MkNode(start, 0, 0, NoPoint)}
        /\ apc = "done" => (result = <<start>> /\ current.p = start)

\* C4's case: the call on a free cell with free neighbours has returned.
C4_Witness ==
    /\ start = goal /\ apc = "done" /\ grid[start] = 0
    /\ FreeNeighbours({start}) # {}
    /\ result = <<start>>

\* Every node a step pushes is for a cell that had no cost or whose cost the
\* step strictly lowers.
PushLowers ==
    \A n \in Pushed : n.p \notin DOMAIN g_costs \/ g_costs'[n.p] < g_costs[n.p]

\* Recorded costs are step counts within the grid.
CostsBounded == \A c \in DOMAIN g_costs : g_costs[c] \in 0 .. rows * cols

\* C5: the search terminates, and a cell is inserted into the frontier only
\* a bounded number of times: every insertion strictly lowers the cell's
\* recorded cost, which stays between 0 and the number of cells.
C5_Terminates ==
    /\ <>(apc = "done")
    /\ [][PushLowers]_vars
    /\ []CostsBounded

\* C5's case: the loop has ended by exhaustion after expanding several cells.
C5_Witness ==
    /\ apc = "done" /\ result = <<>>
    /\ Cardinality(DOMAIN g_costs) >= 4

\* C8: a node is pushed only with the g just written to g_costs for its
\* cell (the start node with g_costs[start] = 0), and an entry of g_costs,
\* once set, never increases: no queued node has a g below its cell's cost.
C8_BestCostAtPush ==
    /\ \A n \in BagToSet(open_list) : n.p = start /\ n.g_cost = g_costs[start]
    /\ [](\A n \in BagToSet(open_list) :
             n.p \in DOMAIN g_costs /\ n.g_cost >= g_costs[n.p])
    /\ [][/\ \A n \in Pushed : n.p \in DOMAIN g_costs' /\ n.g_cost = g_costs'[n.p]
          /\ \A c \in DOMAIN g_costs :
                c \in DOMAIN g_costs' /\ g_costs'[c] <= g_costs[c]]_vars

\* C8's case: a cell's cost was lowered after a node for it was pushed.
C8_Witness == \E n \in BagToSet(open_list) : Stale(n, g_costs)

\* C9: a pop-time staleness check changes nothing observable: whenever the
\* search pops a stale node, it is not the goal, and expanding it leaves
\* g_costs and parents as they were and pushes nothing, so the run that
\* discards the node instead goes through the same states.
C9_StalePopIsNoOp ==
    [][(Popped /\ Stale(current', g_costs)) =>
          /\ apc' = "search"
          /\ g_costs' = g_costs
          /\ parents' = parents
          /\ open_list' = open_list (-) SetToBag({current'})]_vars

\* C9's case: the search loop has just popped a stale node.
C9_Witness == apc = "search" /\ Stale(current, g_costs)

\* C10: start has no parent and cost 0; every cell with a parent costs one
\* more than its parent; the reconstruction loop only reads parents entries
\* that exist, and the path returned has g_costs[goal] + 1 cells.
C10_ParentChain ==
    apc # "idle" =>
        /\ start \notin DOMAIN parents
        /\ g_costs[start] = 0
        /\ \A c \in DOMAIN parents :
              /\ parents[c] \in DOMAIN g_costs
              /\ c \in DOMAIN g_costs
              /\ g_costs[c] = g_costs[parents[c]] + 1
        /\ (apc = "reconstruct" /\ curr_path_point # start) =>
              /\ curr_path_point \in DOMAIN parents
              /\ Len(path) + g_costs[curr_path_point] = g_costs[goal]
        /\ (apc = "done" /\ result # <<>>) => Len(result) = g_costs[goal] + 1

\* C10's case: a path of several cells was rebuilt from parents.
C10_Witness == apc = "done" /\ Len(result) >= 4

\* C6: with start on a Blocked cell other than goal, the search ends with
\* the empty result: no path starting from the blocked cell is returned.
C6_BlockedStartNoPath ==
    (apc = "done" /\ grid[start] = 1 /\ start # goal) => result = <<>>

\* A total weight: <<0, d>> for the number d <= INT_MAX, <<1, 0>> for a
\* total above INT_MAX, <<2, 0>> when there is no path.
Total(d) == <<0, d>>
TooBig == <<1, 0>>
Unreached == <<2, 0>>

\* a + w for a total a and a weight w.
SatAdd(a, w) ==
    IF a[1] # 0 THEN a
    ELSE IF a[2] > INT_MAX - w THEN TooBig ELSE Total(a[2] + w)

\* a is a smaller total than b.
Closer(a, b) == a[1] < b[1] \/ (a[1] = b[1] /\ a[2] < b[2])

Closest(S) == CHOOSE a \in S : \A b \in S : ~Closer(b, a)

\* One round of Bellman-Ford over the undirected edges.
Round(D) ==
    [v \in 0 .. V - 1 |->
        Closest({D[v]}
            \cup {SatAdd(D[edges[i][1]], edges[i][3]) :
                    i \in {j \in 1 .. Len(edges) : edges[j][2] = v}}
            \cup {SatAdd(D[edges[i][2]], edges[i][3]) :
                    i \in {j \in 1 .. Len(edges) : edges[j][1] = v}})]

RECURSIVE Rounds(_, _)
Rounds(D, k) == IF k = 0 THEN D ELSE Rounds(Round(D), k - 1)

\* The minimum total weight over all paths from src to each vertex.
MinWeight ==
    Rounds([v \in 0 .. V - 1 |-> IF v = src THEN Total(0) ELSE Unreached], V)

\* C7: dijkstra returns dist with dist[src] = 0, dist[v] the minimum total
\* weight of a path from src to v when there is one, and INT_MAX otherwise.
\* (Nothing is asked of a vertex whose minimum total weight no int holds.)
C7_ShortestDistances ==
    dpc = "done" =>
        /\ dist[src] = 0
        /\ \A v \in 0 .. V - 1 :
              /\ MinWeight[v] = Unreached => dist[v] = INT_MAX
              /\ MinWeight[v][1] = 0 => dist[v] = MinWeight[v][2]

\* What does hold: the same, on the graphs without a weight of INT_MAX,
\* where no sum the run computes overflows.
SmallWeights == \A i \in 1 .. Len(edges) : edges[i][3] < INT_MAX

ShortestDistancesSmall == SmallWeights => C7_ShortestDistances

=============================================================================
